---- MODULE Spec2Model ----
(***************************************************************************)
(* eduAI: a Canvas course-data fetcher (backend/Scraper.py), the document  *)
(* flattener, embedding index and chat service (backend/main.py).          *)
(*                                                                         *)
(* Four specifications share the variables below:                          *)
(*   SpecFetch    the offline fetch run of Scraper.py                      *)
(*   SpecFlatten  load_and_process_data applied to datasets the fetch run  *)
(*                can write                                                *)
(*   Spec         the serving process: startup, then request handlers run  *)
(*                to completion one at a time                              *)
(*   SpecConc     the serving process with two request threads whose       *)
(*                handler steps interleave                                 *)
(* Python strings are TLA+ strings (Len, \o and SubSeq act on them).       *)
(***************************************************************************)
EXTENDS Integers, Sequences, FiniteSets

VARIABLES
    \* ---- Scraper.py
    api,            \* the courses canvas.get_courses() returns
    f_pc,           \* position of the fetch script
    f_i,            \* index of the course the for loop is at
    course_data,    \* the record being built for that course
    my_data,        \* the dataset being collected
    out_file,       \* content of my_canvas_data.json
    f_writes,       \* number of times the file was written
    \* ---- main.py, startup
    phase,          \* "offline" | "flatten" | "flattened" | "startup" |
                    \* "serving" | "failed"
    canvas_data,    \* the dataset read from my_canvas_data.json
    fl_i,           \* index of the course the flattening loop is at
    documents,
    metadata,
    index,          \* the vectors added to the FAISS index, in order
    \* ---- main.py, request handling
    conversation_histories,
    req,            \* per worker: the handler's position and locals
    resp,           \* per worker: the response of its last request
    served,         \* number of chat / other requests accepted so far
    after_reset     \* history: per session whose last accepted request was a
                    \* reset-chat, the text that reset cleared

fetch_vars == <<api, f_pc, f_i, course_data, my_data, out_file, f_writes>>

load_vars == <<canvas_data, fl_i, documents, metadata, index>>

serve_vars == <<conversation_histories, req, resp, served, after_reset>>

vars == <<fetch_vars, phase, load_vars, serve_vars>>

\* what the fetch run does not touch
NotFetch == <<phase, load_vars, serve_vars>>

(***************************************************************************)
(* Python values.  A value carries its type tag: JSON data mixes strings,  *)
(* null, lists and objects in the same position.                           *)
(***************************************************************************)
None == [t |-> "none"]

S(s) == [t |-> "str", v |-> s]

I(n) == [t |-> "int", v |-> n]

L(seq) == [t |-> "list", v |-> seq]

D(rec) == [t |-> "dict", v |-> rec]

IsStr(x) == x.t = "str"

IsDict(x) == x.t = "dict"

\* bool(x)
Truthy(x) ==
    CASE x.t = "none" -> FALSE
      [] x.t = "str"  -> x.v # ""
      [] x.t = "int"  -> x.v # 0
      [] x.t = "list" -> x.v # <<>>
      [] x.t = "dict" -> DOMAIN x.v # {}

\* d.get(key, default) on the fields of a dict
Get(d, key, default) == IF key \in DOMAIN d THEN d[key] ELSE default

\* d[key] = value
Put(d, key, value) ==
    [k \in DOMAIN d \cup {key} |-> IF k = key THEN value ELSE d[k]]

\* d without key
Without(d, key) == [k \in DOMAIN d \ {key} |-> d[k]]

\* the elements a for loop visits: the items of a list, the characters of a str
Iter(x) ==
    CASE x.t = "list" -> x.v
      [] x.t = "str"  -> [i \in 1..Len(x.v) |-> S(SubSeq(x.v, i, i))]

\* len(x)
PyLen(x) == IF x.t = "dict" THEN Cardinality(DOMAIN x.v) ELSE Len(x.v)

\* f"{x}" for the values the dataset holds in rendered positions
Fmt(x) ==
    CASE x.t = "none" -> "None"
      [] x.t = "str"  -> x.v

Min(a, b) == IF a < b THEN a ELSE b

RECURSIVE Rep(_, _)
Rep(s, n) == IF n = 0 THEN "" ELSE s \o Rep(s, n - 1)

(***************************************************************************)
(* Scraper.py: the fetch run.                                              *)
(***************************************************************************)
current_user == [id |-> 7, name |-> "Ada Student"]

\* datetime(2025, 1, 1, tzinfo=timezone.utc) as (y, m, d, H, M, S) in UTC
cutoff_date == <<2025, 1, 1, 0, 0, 0>>

\* a < b on datetimes, as UTC tuples
RECURSIVE TupleLess(_, _)
TupleLess(a, b) ==
    IF a = <<>> THEN FALSE
    ELSE IF Head(a) # Head(b) THEN Head(a) < Head(b)
    ELSE TupleLess(Tail(a), Tail(b))

\* datetime.fromisoformat(s.replace("Z", "+00:00")) on the timestamps the
\* remote courses of this model carry: "error" is ValueError, "aware" has a
\* UTC offset (utc is the instant), "naive" has none.
FromIsoFormat(s) ==
    CASE s = "2024-08-26T04:00:00Z" ->
            [kind |-> "aware", utc |-> <<2024, 8, 26, 4, 0, 0>>]
      [] s = "2024-12-31T23:59:59Z" ->
            [kind |-> "aware", utc |-> <<2024, 12, 31, 23, 59, 59>>]
      [] s = "2025-01-01T00:00:00Z" ->
            [kind |-> "aware", utc |-> <<2025, 1, 1, 0, 0, 0>>]
      [] s = "2025-01-13T05:00:00Z" ->
            [kind |-> "aware", utc |-> <<2025, 1, 13, 5, 0, 0>>]
      [] s = "2024-12-31T20:00:00-05:00" ->
            [kind |-> "aware", utc |-> <<2025, 1, 1, 1, 0, 0>>]
      [] s = "2024-09-01T00:00:00" ->
            [kind |-> "naive", utc |-> <<2024, 9, 1, 0, 0, 0>>]
      [] OTHER -> [kind |-> "error", utc |-> <<>>]

\* Lines 38-47 for one course: "skip" (continue), "keep", or "raise" when the
\* comparison of a naive datetime with the aware cutoff raises TypeError,
\* which no handler catches.
NoAttr == [t |-> "noattr"]

CutoffDecision(start_at) ==
    IF start_at.t = "noattr" \/ ~Truthy(start_at) THEN "keep"
    ELSE LET course_start == FromIsoFormat(start_at.v) IN
         CASE course_start.kind = "error" -> "keep"
           [] course_start.kind = "naive" -> "raise"
           [] course_start.kind = "aware" ->
                IF TupleLess(course_start.utc, cutoff_date) THEN "skip" ELSE "keep"

\* getattr(course, 'start_at', None)
AttrOrNone(x) == IF x.t = "noattr" THEN None ELSE x

\* Lines 50-57
NewCourseData(course) ==
    [id          |-> I(course.id),
     name        |-> S(course.name),
     course_code |-> course.course_code,
     description |-> course.description,
     start_at    |-> AttrOrNone(course.start_at),
     end_at      |-> None]

ErrorText(what, e) == S("Error retrieving " \o what \o ": " \o e)

\* Lines 60-72
EnrollmentValue(course, e) ==
    IF e # "" THEN ErrorText("enrollment", e)
    ELSE LET mine == SelectSeq(course.enrollments,
                               LAMBDA en : en.user_id = current_user.id) IN
         IF mine # <<>>
         THEN D([user_id |-> I(mine[1].user_id), role |-> S(mine[1].role),
                 grades |-> D([current_score |-> I(mine[1].score)])])
         ELSE S("No enrollment found for current user")

\* Lines 79-89
SubmissionData(a) ==
    IF a.sub_error # "" THEN ErrorText("submission", a.sub_error)
    ELSE D([submitted_at |-> None, score |-> a.score, grade |-> None,
            workflow_state |-> S("unsubmitted"), submission_comments |-> None])

\* Lines 90-97
AssignmentRecord(a) ==
    D([id |-> I(a.id), name |-> S(a.name), due_at |-> a.due_at,
       description |-> a.description, points_possible |-> I(a.points),
       submission |-> SubmissionData(a)])

\* Lines 75-99
AssignmentsValue(course, e) ==
    IF e # "" THEN ErrorText("assignments", e)
    ELSE L([n \in 1..Len(course.assignments) |->
               AssignmentRecord(course.assignments[n])])

\* Lines 106-117
QuizSubmissionData(q) ==
    IF q.sub_error # "" THEN ErrorText("quiz submission", q.sub_error)
    ELSE IF q.submitted
         THEN D([score |-> q.score, graded_at |-> None])
         ELSE S("No submission")

\* Lines 118-125
QuizRecord(q) ==
    D([id |-> I(q.id), title |-> S(q.title), due_at |-> q.due_at,
       description |-> q.description, points_possible |-> None,
       submission |-> QuizSubmissionData(q)])

\* Lines 102-127
QuizzesValue(course, e) ==
    IF e # "" THEN ErrorText("quizzes", e)
    ELSE L([n \in 1..Len(course.quizzes) |-> QuizRecord(course.quizzes[n])])

\* Lines 130-143: only the topics the current user authored
DiscussionsValue(course, e) ==
    IF e # "" THEN ErrorText("discussions", e)
    ELSE LET mine == SelectSeq(course.discussions,
                               LAMBDA d : d.author = current_user.id) IN
         L([n \in 1..Len(mine) |->
               D([id |-> I(mine[n].id), title |-> S(mine[n].title),
                  message |-> None, posted_at |-> None])])

\* Lines 146-169
ModulesValue(course, e) ==
    IF e # "" THEN ErrorText("modules", e)
    ELSE L([n \in 1..Len(course.modules) |->
               D([id |-> I(course.modules[n].id),
                  name |-> S(course.modules[n].name),
                  items |-> IF course.modules[n].items_error # ""
                            THEN ErrorText("module items",
                                           course.modules[n].items_error)
                            ELSE L(<<>>)])])

\* Lines 172-182
PagesValue(course, e) ==
    IF e # "" THEN ErrorText("pages", e)
    ELSE L([n \in 1..Len(course.pages) |->
               D([url |-> S(course.pages[n].url),
                  title |-> S(course.pages[n].title), body |-> None])])

\* Lines 185-190
GradebookValue(course, e) ==
    IF e # "" THEN S("Error retrieving gradebook history: " \o e)
    ELSE L(<<>>)

Sections ==
    <<"enrollment", "assignments", "quizzes", "discussions", "modules",
      "pages", "gradebook_history">>

\* what the try/except of one section stores under its key; e is the text
\* of the exception its retrieval raised, "" when it raised none
SectionValue(section, course, e) ==
    CASE section = "enrollment"        -> EnrollmentValue(course, e)
      [] section = "assignments"       -> AssignmentsValue(course, e)
      [] section = "quizzes"           -> QuizzesValue(course, e)
      [] section = "discussions"       -> DiscussionsValue(course, e)
      [] section = "modules"           -> ModulesValue(course, e)
      [] section = "pages"             -> PagesValue(course, e)
      [] section = "gradebook_history" -> GradebookValue(course, e)

\* course_data[section] = ... of one try/except
Collect(data, section, course, e) ==
    Put(data, section, SectionValue(section, course, e))

(***************************************************************************)
(* The remote course-management API this model talks to.                   *)
(***************************************************************************)
HW1 ==
    [id |-> 11, name |-> "HW1", due_at |-> S("2025-03-10T23:59:00Z"),
     description |-> S("<p>Read chapter 1</p>"), points |-> 10,
     score |-> None, sub_error |-> ""]

HW2 ==
    [id |-> 12, name |-> "HW2", due_at |-> None, description |-> None,
     points |-> 20, score |-> I(18), sub_error |-> "403 Forbidden"]

Quiz1 ==
    [id |-> 21, title |-> "Quiz 1", due_at |-> S("2025-02-01T12:00:00"),
     description |-> S("Loops"), submitted |-> TRUE, score |-> I(9),
     sub_error |-> ""]

Quiz2 ==
    [id |-> 22, title |-> "Quiz 2", due_at |-> S("TBD"),
     description |-> None, submitted |-> FALSE, score |-> None,
     sub_error |-> ""]

CS101 ==
    [id |-> 101, name |-> "CS101", course_code |-> S("CS 101"),
     description |-> S("Intro to programming"),
     start_at |-> S("2025-01-13T05:00:00Z"),
     enrollments |-> <<[user_id |-> 7, role |-> "StudentEnrollment", score |-> 93]>>,
     assignments |-> <<HW1, HW2>>,
     quizzes |-> <<Quiz1>>,
     discussions |-> <<[id |-> 31, title |-> "Intro", author |-> 7],
                       [id |-> 32, title |-> "FAQ", author |-> 9]>>,
     modules |-> <<[id |-> 41, name |-> "Week 1", items_error |-> ""],
                   [id |-> 42, name |-> "Week 2", items_error |-> "500"]>>,
     pages |-> <<[url |-> "syllabus", title |-> "Syllabus"]>>]

MATH140 ==
    [id |-> 102, name |-> "MATH140", course_code |-> None,
     description |-> None,
     start_at |-> NoAttr,
     enrollments |-> <<[user_id |-> 9, role |-> "StudentEnrollment", score |-> 50]>>,
     assignments |-> <<>>,
     quizzes |-> <<Quiz2, Quiz1>>,
     discussions |-> <<>>,
     modules |-> <<>>,
     pages |-> <<>>]

WithStart(course, start_at) == [course EXCEPT !.start_at = start_at]

\* course.start_at: missing, null, empty, unparsable, before / at / after the
\* cutoff, after the cutoff only once its offset is applied, without offset
StartAts ==
    {NoAttr, None, S(""), S("TBD"),
     S("2024-08-26T04:00:00Z"), S("2024-12-31T23:59:59Z"),
     S("2025-01-01T00:00:00Z"), S("2025-01-13T05:00:00Z"),
     S("2024-12-31T20:00:00-05:00"), S("2024-09-01T00:00:00")}

\* start timestamps of the two-course runs
StartPairs ==
    {<<S("2024-08-26T04:00:00Z"), S("2025-01-13T05:00:00Z")>>,
     <<S("2025-01-13T05:00:00Z"), S("2024-12-31T23:59:59Z")>>,
     <<S("2025-01-01T00:00:00Z"), S("2024-12-31T20:00:00-05:00")>>,
     <<S("TBD"), NoAttr>>,
     <<S("2025-01-13T05:00:00Z"), S("2024-09-01T00:00:00")>>,
     <<S("2024-09-01T00:00:00"), S("2025-01-13T05:00:00Z")>>}

ApiCourseLists ==
    {<<>>}
    \cup {<<WithStart(CS101, s)>> : s \in StartAts}
    \cup {<<WithStart(CS101, p[1]), WithStart(MATH140, p[2])>> : p \in StartPairs}

\* str(e) of the exception a retrieval raises; "" stands for no exception
Raised == {"", "404 Not Found"}

(***************************************************************************)
(* The fetch script as a state machine.                                    *)
(***************************************************************************)
\* Lines 17-23
UserData ==
    D([id |-> I(current_user.id), name |-> S(current_user.name),
       sortable_name |-> None, login_id |-> None])

NoFile == [t |-> "nofile"]

NoCourse == <<>>

FetchInit ==
    /\ api \in ApiCourseLists
    /\ f_pc = "loop"
    /\ f_i = 1
    /\ course_data = NoCourse
    /\ my_data = [user |-> UserData, courses |-> <<>>]
    /\ out_file = NoFile
    /\ f_writes = 0

\* Lines 33-57: the head of the for loop, the cutoff filter
NextCourse ==
    /\ f_pc = "loop"
    /\ f_i <= Len(api)
    /\ LET decision == CutoffDecision(api[f_i].start_at) IN
       CASE decision = "skip" ->
                /\ f_i' = f_i + 1
                /\ UNCHANGED <<f_pc, course_data>>
         [] decision = "keep" ->
                /\ course_data' = NewCourseData(api[f_i])
                /\ f_pc' = "enrollment"
                /\ UNCHANGED f_i
         [] decision = "raise" ->
                /\ f_pc' = "crashed"
                /\ UNCHANGED <<f_i, course_data>>
    /\ UNCHANGED <<api, my_data, out_file, f_writes, NotFetch>>

\* one try/except block: the section's data, or its error string
CollectStep(section, next) ==
    /\ f_pc = section
    /\ \E e \in Raised :
         course_data' = Collect(course_data, section, api[f_i], e)
    /\ f_pc' = next
    /\ UNCHANGED <<api, f_i, my_data, out_file, f_writes, NotFetch>>

\* Lines 59-72
Enrollment == CollectStep("enrollment", "assignments")

\* Lines 74-99
Assignments == CollectStep("assignments", "quizzes")

\* Lines 101-127
Quizzes == CollectStep("quizzes", "discussions")

\* Lines 129-143
Discussions == CollectStep("discussions", "modules")

\* Lines 145-169
Modules == CollectStep("modules", "pages")

\* Lines 171-182
Pages == CollectStep("pages", "gradebook_history")

\* Lines 184-192: the last section, then my_data['courses'].append
Gradebook ==
    /\ f_pc = "gradebook_history"
    /\ \E e \in Raised :
         my_data' = [my_data EXCEPT !.courses =
             Append(@, Collect(course_data, "gradebook_history", api[f_i], e))]
    /\ course_data' = NoCourse
    /\ f_i' = f_i + 1
    /\ f_pc' = "loop"
    /\ UNCHANGED <<api, out_file, f_writes, NotFetch>>

\* Lines 194-199: json.dump after the loop
DumpFile ==
    /\ f_pc = "loop"
    /\ f_i > Len(api)
    /\ out_file' = [t |-> "file", v |-> my_data]
    /\ f_writes' = f_writes + 1
    /\ f_pc' = "done"
    /\ UNCHANGED <<api, f_i, course_data, my_data, NotFetch>>

FetchNext ==
    \/ NextCourse
    \/ Enrollment
    \/ Assignments
    \/ Quizzes
    \/ Discussions
    \/ Modules
    \/ Pages
    \/ Gradebook
    \/ DumpFile

(***************************************************************************)
(* main.py: load_and_process_data, the flattener.                          *)
(***************************************************************************)
\* Lines 52-61: parser.parse, UTC when naive, astimezone(America/New_York),
\* strftime("%Y-%m-%d %I:%M %p %Z"), on the due dates of this model's remote
\* data; ok = FALSE when parser.parse raises.
LocalizeDue(due_str) ==
    IF ~IsStr(due_str) THEN [ok |-> FALSE, text |-> ""]
    ELSE CASE due_str.v = "2025-03-10T23:59:00Z" ->
                 [ok |-> TRUE, text |-> "2025-03-10 07:59 PM EDT"]
           [] due_str.v = "2025-02-01T12:00:00" ->
                 [ok |-> TRUE, text |-> "2025-02-01 07:00 AM EST"]
           [] OTHER -> [ok |-> FALSE, text |-> ""]

\* Lines 51-65 (assignments) and 96-110 (quizzes)
DueText(due_str) ==
    IF Truthy(due_str) /\ ~(IsStr(due_str) /\ due_str.v = "No due date")
    THEN LET r == LocalizeDue(due_str) IN
         IF r.ok THEN S(r.text) ELSE due_str
    ELSE due_str

\* Lines 68-72 and 113-117
SubScores(item) ==
    LET submission == Get(item, "submission", D(<<>>)) IN
    IF IsDict(submission)
    THEN Get(submission.v, "scores", S("No submission"))
    ELSE S("No submission")

\* Lines 34-42: the course overview document and its metadata
CourseEntry(course) ==
    LET course_name == Get(course, "name", S("Unknown Course"))
        course_code == Get(course, "course_code", S("No code"))
        description == Get(course, "description", None)
    IN [doc  |-> "**Course:** " \o Fmt(course_name) \o "\n"
                 \o "**Code:** " \o Fmt(course_code) \o "\n"
                 \o (IF Truthy(description)
                     THEN "**Description:** " \o Fmt(description) \o "\n"
                     ELSE ""),
        meta |-> [type |-> "course", course |-> course_name]]

\* Lines 46-87: the body of the assignments loop for one element
AssignmentEntry(course_name, assignment) ==
    LET isdict == IsDict(assignment)
        a_name == IF isdict
                  THEN Get(assignment.v, "name", S("Unnamed Assignment"))
                  ELSE S(Fmt(assignment))
        due    == IF isdict
                  THEN DueText(Get(assignment.v, "due_at", S("No due date")))
                  ELSE S("No due date")
        a_desc == IF isdict
                  THEN Get(assignment.v, "description", S("No description"))
                  ELSE S("")
        sub_scores == IF isdict THEN SubScores(assignment.v) ELSE S("")
    IN [doc  |-> "**Assignment in " \o Fmt(course_name) \o ":**\n"
                 \o "- **Name:** " \o Fmt(a_name) \o "\n"
                 \o "- **Due Date:** " \o Fmt(due) \o "\n"
                 \o "- **Description:** " \o Fmt(a_desc) \o "\n"
                 \o "- **Submission Scores:** " \o Fmt(sub_scores) \o "\n",
        meta |-> [type |-> "assignment", course |-> course_name,
                  title |-> a_name]]

\* Lines 91-132: the body of the quizzes loop for one element
QuizEntry(course_name, quiz) ==
    LET isdict == IsDict(quiz)
        q_title == IF isdict
                   THEN Get(quiz.v, "title", S("Unnamed Quiz"))
                   ELSE S(Fmt(quiz))
        due    == IF isdict
                  THEN DueText(Get(quiz.v, "due_at", S("No due date")))
                  ELSE S("No due date")
        q_desc == IF isdict
                  THEN Get(quiz.v, "description", S("No description"))
                  ELSE S("")
        sub_scores == IF isdict THEN SubScores(quiz.v) ELSE S("")
    IN [doc  |-> "**Quiz in " \o Fmt(course_name) \o ":**\n"
                 \o "- **Title:** " \o Fmt(q_title) \o "\n"
                 \o "- **Due Date:** " \o Fmt(due) \o "\n"
                 \o "- **Description:** " \o Fmt(q_desc) \o "\n"
                 \o "- **Submission Scores:** " \o Fmt(sub_scores) \o "\n",
        meta |-> [type |-> "quiz", course |-> course_name, title |-> q_title]]

\* Lines 33-132: one iteration of the loop over courses; the entries it
\* appends to documents (doc) and metadata (meta), in order
FlattenCourseEntries(course) ==
    LET course_name == Get(course, "name", S("Unknown Course"))
        assignments == Iter(Get(course, "assignments", L(<<>>)))
        quizzes     == Iter(Get(course, "quizzes", L(<<>>)))
    IN <<CourseEntry(course)>>
       \o [n \in 1..Len(assignments) |-> AssignmentEntry(course_name, assignments[n])]
       \o [n \in 1..Len(quizzes) |-> QuizEntry(course_name, quizzes[n])]

Docs(entries) == [n \in 1..Len(entries) |-> entries[n].doc]

Metas(entries) == [n \in 1..Len(entries) |-> entries[n].meta]

\* Lines 22-134: the entries of a whole dataset
RECURSIVE EntriesFrom(_, _)
EntriesFrom(courses, n) ==
    IF n > Len(courses) THEN <<>>
    ELSE FlattenCourseEntries(courses[n]) \o EntriesFrom(courses, n + 1)

load_and_process_data(data) ==
    LET entries == EntriesFrom(Get(data, "courses", <<>>), 1) IN
    [documents |-> Docs(entries), metadata |-> Metas(entries),
     original_data |-> data]

(***************************************************************************)
(* The datasets a fetch run can write: the kept courses of a course list,  *)
(* each with a set of sections whose retrieval raised.                     *)
(***************************************************************************)
RECURSIVE CollectAll(_, _, _, _)
CollectAll(data, course, failing, n) ==
    IF n > Len(Sections) THEN data
    ELSE CollectAll(Collect(data, Sections[n], course,
                            IF Sections[n] \in failing THEN "404 Not Found" ELSE ""),
                    course, failing, n + 1)

FetchedCourse(course, failing) ==
    CollectAll(NewCourseData(course), course, failing, 1)

Dataset(courses) == [user |-> UserData, courses |-> courses]

\* failing sections of the datasets flattened: the two the flattener reads
\* and one it does not
FlattenFailures == SUBSET {"assignments", "quizzes", "pages"}

FlattenDatasets ==
    {Dataset(<<>>)}
    \cup {Dataset(<<FetchedCourse(CS101, f)>>) : f \in FlattenFailures}
    \cup {Dataset(<<FetchedCourse(MATH140, f)>>) : f \in FlattenFailures}
    \cup {Dataset(<<FetchedCourse(CS101, f), FetchedCourse(MATH140, g)>>) :
              f \in FlattenFailures, g \in FlattenFailures}

FlattenInit ==
    /\ phase = "flatten"
    /\ canvas_data \in FlattenDatasets
    /\ fl_i = 1
    /\ documents = <<>>
    /\ metadata = <<>>
    /\ index = <<>>

\* one iteration of the loop over canvas_data["courses"]
FlattenCourse ==
    /\ phase = "flatten"
    /\ fl_i <= Len(canvas_data.courses)
    /\ LET entries == FlattenCourseEntries(canvas_data.courses[fl_i]) IN
         /\ documents' = documents \o Docs(entries)
         /\ metadata' = metadata \o Metas(entries)
    /\ fl_i' = fl_i + 1
    /\ UNCHANGED <<canvas_data, index, fetch_vars, serve_vars>>
    /\ UNCHANGED phase

\* Line 134: return documents, metadata, canvas_data
FlattenReturn ==
    /\ phase = "flatten"
    /\ fl_i > Len(canvas_data.courses)
    /\ phase' = "flattened"
    /\ UNCHANGED <<load_vars, fetch_vars, serve_vars>>

FlattenNext ==
    \/ FlattenCourse
    \/ FlattenReturn

(***************************************************************************)
(* main.py: the embedding index and the serving process.                   *)
(***************************************************************************)
\* Lines 163-178
prompt_instructions ==
    "You are an AI Study Buddy with access to structured Canvas course data. "
    \o "Your role is to help the user plan their study, answer questions about upcoming assignments and quizzes, "
    \o "and provide personalized study plans. Use the provided context to answer questions accurately. "
    \o "When a study plan is requested (e.g., 'Plan my week' or 'Give me a five-day study plan'), "
    \o "output a neatly formatted plan with bold headings and a table or bullet list format. "
    \o "If asked about upcoming assignments or quizzes, automatically select the most imminent items based on due dates. "
    \o "Take special note of all due dates and ALWAYS use the Eastern Time (ET) timezone when referring to them. "
    \o "Pay close attention to the current date and time. If an assignment is due today at 11:59 PM and it is still earlier "
    \o "in the day, make sure to indicate that it is due TODAY at 11:59 PM, not tomorrow. "
    \o "Be precise with time information and understand time sensitivity. "
    \o "Assume that the current week is the relevant week if not specified, and never ask the user clarifying questions. "
    \o "Respond in a friendly, helpful, and professional manner, ensuring that your response is presentable and well-structured. "
    \o "If some data is missing, fill in plausible details to ensure a complete and helpful answer. "
    \o "Also Do not use terms like \"based on your given data\" etc. You should sound natural."

\* Line 231: the history bound, in characters
HistoryLimit == 10000

\* Line 205: the number of neighbours asked for
TopK == 10

\* embedder.encode(text): the vector of a text
Embedding(text) == [embedding_of |-> text]

\* build_faiss_index losing the last document
build_faiss_index_dropping_last(docs) ==
    [n \in 1..(Len(docs) - 1) |-> Embedding(docs[n])]

\* Lines 139-149: one vector per document, added in document order
build_faiss_index(docs) == [n \in 1..Len(docs) |-> Embedding(docs[n])]

\* k without the clamp to the corpus size
NeighbourCountUnclamped(n) == TopK

\* Line 205
NeighbourCount(n) == Min(TopK, n)

\* index.search(query, k) of a flat index holding ntotal vectors: k labels,
\* nearest first; the labels are distinct positions 0..ntotal-1, and -1 fills
\* the places beyond ntotal. rank is the order the query's distances give.
Search(idx, k, rank) ==
    LET ntotal == Len(idx) IN
    [j \in 1..k |->
        IF j > ntotal THEN -1
        ELSE IF rank = "ascending" THEN j - 1 ELSE ntotal - j]

Ranks == {"ascending", "descending"}

\* list[i] with Python's indexing: 0-based, negative from the end
PyIndexOk(list, i) == -Len(list) <= i /\ i < Len(list)

PyItem(list, i) == IF i >= 0 THEN list[i + 1] ELSE list[Len(list) + i + 1]

\* sep.join(parts)
RECURSIVE Join(_, _)
Join(sep, parts) ==
    IF parts = <<>> THEN ""
    ELSE IF Len(parts) = 1 THEN parts[1]
    ELSE parts[1] \o sep \o Join(sep, Tail(parts))

\* str.strip()
IsSpace(c) == c \in {" ", "\n", "\t", "\r"}

RECURSIVE LStrip(_)
LStrip(s) ==
    IF s # "" /\ IsSpace(SubSeq(s, 1, 1)) THEN LStrip(SubSeq(s, 2, Len(s))) ELSE s

RECURSIVE RStrip(_)
RStrip(s) ==
    IF s # "" /\ IsSpace(SubSeq(s, Len(s), Len(s)))
    THEN RStrip(SubSeq(s, 1, Len(s) - 1)) ELSE s

Strip(s) == RStrip(LStrip(s))

\* s[-n:]
LastChars(s, n) == IF Len(s) <= n THEN s ELSE SubSeq(s, Len(s) - n + 1, Len(s))

\* Lines 215-220
FullPrompt(retrieved_context, date_time_string, message) ==
    prompt_instructions \o "\n\n"
    \o "Current Date and Time: " \o date_time_string \o "\n\n"
    \o "Canvas Data Context:\n" \o retrieved_context \o "\n\n"
    \o "User: " \o message \o "\nAssistant:"

\* the prompt assigned where it should be appended (= for +=)
WithPromptOverwriting(history, full_prompt) == "\n" \o full_prompt

\* Line 222: history + "\n" + full_prompt
WithPrompt(history, full_prompt) == history \o "\n" \o full_prompt

\* Line 228: history + " " + ai_response
WithResponse(history, ai_response) == history \o " " \o ai_response

\* Lines 231-232
NeedsTruncation(history) == Len(history) > HistoryLimit

\* truncation keeping the oldest characters: history[:10000]
TruncatedToPrefix(history) == SubSeq(history, 1, HistoryLimit)

Truncated(history) == LastChars(history, HistoryLimit)

\* a reset that clears every session's history
AfterResetClearingAll(histories, session_id) ==
    [k \in DOMAIN histories |-> ""]

\* a reset that clears nothing
AfterResetKeepingText(histories, session_id) == histories

\* Lines 244-245: the history a reset leaves
AfterReset(histories, session_id) ==
    IF session_id \in DOMAIN histories
    THEN [histories EXCEPT ![session_id] = ""]
    ELSE histories

(***************************************************************************)
(* The serving process: startup, then the request handlers.                *)
(***************************************************************************)
\* chat requests, and reset-chat / summary / health requests, a run accepts
MaxChats == 2

MaxOthers == 1

Workers == {"w1", "w2"}

\* datasets read at startup: no course at all; three documents; more
\* documents than TopK (the quizzes section of CS101 holds an error string)
ServerDatasets ==
    {Dataset(<<>>),
     Dataset(<<FetchedCourse(MATH140, {})>>),
     Dataset(<<FetchedCourse(CS101, {"quizzes"})>>)}

\* datetime.now(USER_TIMEZONE), as lines 212 and 286 render it
Clock ==
    {[long  |-> "Friday, November 06, 2026 at 06:48 AM EST",
      short |-> "2026-11-06 06:48 AM EST"]}

ShortMessage == "What is due this week?"

LongMessage == Rep(Rep("Plan my week. ", 25), 13)

\* request.get_json() of a POST /api/chat: no JSON body (get_json raises),
\* a list, or an object (without a message, or with one)
NoBody == [t |-> "nobody"]

ChatBodies ==
    {NoBody, L(<<>>), D(<<>>),
     D([message |-> S(ShortMessage)]),
     D([message |-> S(LongMessage)]),
     D([message |-> S(ShortMessage), session_id |-> S("u1")])}

ResetBodies == {None, D(<<>>), D([session_id |-> S("u1")])}

\* response.text of the generative model
ModelTexts == {" Here is your plan for the week.\n"}

\* a worker's locals: before, fresh, cleared and raced are history variables
\* (the histories when the request arrived; whether it is the session's first
\* request after a reset-chat, and what that reset cleared; whether another
\* request has written the session's history since this one arrived)
Idle ==
    [pc |-> "idle", kind |-> "", message |-> "", session_id |-> "",
     k |-> 0, indices |-> <<>>, full_prompt |-> "", tmp |-> "",
     sent |-> FALSE, transcript |-> "", ai_response |-> "",
     before |-> <<>>, fresh |-> FALSE, cleared |-> "", raced |-> FALSE]

NoResponse == [by |-> "none", status |-> 0, json |-> FALSE, body |-> None]

\* return jsonify(body), status
Json(status, body) ==
    [by |-> "handler", status |-> status, json |-> TRUE, body |-> body]

\* an exception that leaves the view function: the framework answers
Unhandled(exception, status) ==
    [by |-> "framework", status |-> status, json |-> FALSE,
     body |-> D([exception |-> S(exception)])]

\* Lines 235-236
Caught(e) == Json(500, D([error |-> S(e)]))

ServeInit ==
    /\ api = <<>>
    /\ f_pc = "done"
    /\ f_i = 1
    /\ course_data = NoCourse
    /\ canvas_data \in ServerDatasets
    /\ my_data = canvas_data
    /\ out_file = [t |-> "file", v |-> canvas_data]
    /\ f_writes = 1
    /\ phase = "startup"
    /\ fl_i = 1
    /\ documents = <<>>
    /\ metadata = <<>>
    /\ index = <<>>
    /\ conversation_histories = <<>>
    /\ req = [w \in Workers |-> Idle]
    /\ resp = [w \in Workers |-> NoResponse]
    /\ served = [chat |-> 0, other |-> 0]
    /\ after_reset = <<>>

\* Lines 290-294: load the dataset and build the index; embedding an empty
\* document list has no second dimension, embeddings.shape[1] raises and
\* the process does not start
Startup ==
    /\ phase = "startup"
    /\ LET loaded == load_and_process_data(canvas_data) IN
         /\ documents' = loaded.documents
         /\ metadata' = loaded.metadata
         /\ IF loaded.documents = <<>>
            THEN /\ index' = <<>>
                 /\ phase' = "failed"
            ELSE /\ index' = build_faiss_index(loaded.documents)
                 /\ phase' = "serving"
    /\ UNCHANGED <<fetch_vars, canvas_data, fl_i, serve_vars>>

Free(w) == req[w].pc \in {"idle", "done"}

Accepting(w, kind) ==
    /\ phase = "serving"
    /\ Free(w)
    /\ IF kind = "chat" THEN served.chat < MaxChats ELSE served.other < MaxOthers

Count(kind) ==
    IF kind = "chat"
    THEN [served EXCEPT !.chat = @ + 1]
    ELSE [served EXCEPT !.other = @ + 1]

Static == <<fetch_vars, phase, load_vars>>

\* the handler returns: its locals stay readable until the worker's next request
Return(w, locals, response) ==
    /\ req' = [req EXCEPT ![w] = [locals EXCEPT !.pc = "done"]]
    /\ resp' = [resp EXCEPT ![w] = response]

\* worker w has written conversation_histories[session_id]: the other chat
\* requests on that session have been raced
Disturbed(locals, w, session_id) ==
    [u \in Workers |->
        IF u # w /\ locals[u].kind = "chat" /\ locals[u].session_id = session_id
        THEN [locals[u] EXCEPT !.raced = TRUE]
        ELSE locals[u]]

\* the handler returns after a write of conversation_histories[session_id]
ReturnAfterWrite(w, locals, response, session_id) ==
    /\ req' = Disturbed([req EXCEPT ![w] = [locals EXCEPT !.pc = "done"]],
                        w, session_id)
    /\ resp' = [resp EXCEPT ![w] = response]

\* Lines 189-194: read the body, validate the message
ChatReceive(w) ==
    /\ Accepting(w, "chat")
    /\ served' = Count("chat")
    /\ \E data \in ChatBodies :
         LET start == [Idle EXCEPT !.kind = "chat",
                                   !.before = conversation_histories] IN
         IF data.t = "nobody"
         THEN /\ Return(w, start, Unhandled("BadRequest", 400))
              /\ UNCHANGED after_reset
         ELSE IF ~IsDict(data)
         THEN /\ Return(w, start, Unhandled("AttributeError", 500))
              /\ UNCHANGED after_reset
         ELSE LET message == Get(data.v, "message", S(""))
                  session_id == Get(data.v, "session_id", S("default"))
                  locals == [start EXCEPT !.message = message.v,
                                          !.session_id = session_id.v,
                                          !.fresh = session_id.v \in DOMAIN after_reset,
                                          !.cleared = Get(after_reset, session_id.v, "")]
              IN /\ after_reset' = Without(after_reset, session_id.v)
                 /\ IF ~Truthy(message)
                    THEN Return(w, locals,
                                Json(400, D([error |-> S("No message provided")])))
                    ELSE /\ req' = [req EXCEPT ![w] = [locals EXCEPT !.pc = "init"]]
                         /\ UNCHANGED resp
    /\ UNCHANGED <<Static, conversation_histories>>

\* Lines 197-198: create the session's history on its first message
ChatInit(w) ==
    /\ req[w].pc = "init"
    /\ conversation_histories' =
         IF req[w].session_id \notin DOMAIN conversation_histories
         THEN Put(conversation_histories, req[w].session_id, "")
         ELSE conversation_histories
    /\ req' = [req EXCEPT ![w].pc = "retrieve"]
    /\ UNCHANGED <<Static, resp, served, after_reset>>

\* Lines 202-220: embed the query, search, join the documents, build the prompt
ChatRetrieve(w) ==
    /\ req[w].pc = "retrieve"
    /\ \/ Return(w, req[w], Caught("encode failed"))
       \/ LET k == NeighbourCount(Len(documents)) IN
          \/ Return(w, [req[w] EXCEPT !.k = k], Caught("search failed"))
          \/ \E rank \in Ranks, now \in Clock :
               LET indices == Search(index, k, rank)
                   locals == [req[w] EXCEPT !.k = k, !.indices = indices]
               IN IF \E j \in 1..Len(indices) : ~PyIndexOk(documents, indices[j])
                  THEN Return(w, locals, Caught("list index out of range"))
                  ELSE LET retrieved_docs ==
                               [j \in 1..Len(indices) |-> PyItem(documents, indices[j])]
                           retrieved_context == Join("\n", retrieved_docs)
                       IN /\ req' = [req EXCEPT ![w] =
                                 [locals EXCEPT
                                     !.full_prompt = FullPrompt(retrieved_context,
                                                                now.long,
                                                                req[w].message),
                                     !.pc = "read_for_prompt"]]
                          /\ UNCHANGED resp
    /\ UNCHANGED <<Static, conversation_histories, served, after_reset>>

\* Line 222, the read of conversation_histories[session_id] += ...
ChatReadForPrompt(w) ==
    /\ req[w].pc = "read_for_prompt"
    /\ req' = [req EXCEPT
                 ![w].tmp = WithPrompt(conversation_histories[req[w].session_id],
                                       req[w].full_prompt),
                 ![w].pc = "store_prompt"]
    /\ UNCHANGED <<Static, conversation_histories, resp, served, after_reset>>

\* Line 222, the write
ChatStorePrompt(w) ==
    /\ req[w].pc = "store_prompt"
    /\ conversation_histories' =
         [conversation_histories EXCEPT ![req[w].session_id] = req[w].tmp]
    /\ req' = Disturbed([req EXCEPT ![w].pc = "generate"], w, req[w].session_id)
    /\ UNCHANGED <<Static, resp, served, after_reset>>

\* Lines 224-225: send the session's history to the model
ChatGenerate(w) ==
    /\ req[w].pc = "generate"
    /\ LET locals == [req[w] EXCEPT
                        !.sent = TRUE,
                        !.transcript = conversation_histories[req[w].session_id]]
       IN \/ Return(w, locals, Caught("generate_content failed"))
          \/ \E text \in ModelTexts :
               /\ req' = [req EXCEPT ![w] =
                     [locals EXCEPT !.ai_response = Strip(text),
                                    !.pc = "read_for_response"]]
               /\ UNCHANGED resp
    /\ UNCHANGED <<Static, conversation_histories, served, after_reset>>

\* Line 228, the read
ChatReadForResponse(w) ==
    /\ req[w].pc = "read_for_response"
    /\ req' = [req EXCEPT
                 ![w].tmp = WithResponse(conversation_histories[req[w].session_id],
                                         req[w].ai_response),
                 ![w].pc = "store_response"]
    /\ UNCHANGED <<Static, conversation_histories, resp, served, after_reset>>

\* Line 228, the write
ChatStoreResponse(w) ==
    /\ req[w].pc = "store_response"
    /\ conversation_histories' =
         [conversation_histories EXCEPT ![req[w].session_id] = req[w].tmp]
    /\ req' = Disturbed([req EXCEPT ![w].pc = "check_length"], w, req[w].session_id)
    /\ UNCHANGED <<Static, resp, served, after_reset>>

\* Lines 231 and 234: the length test; within the bound, return the response
ChatCheckLength(w) ==
    /\ req[w].pc = "check_length"
    /\ IF NeedsTruncation(conversation_histories[req[w].session_id])
       THEN /\ req' = [req EXCEPT ![w].pc = "truncate"]
            /\ UNCHANGED resp
       ELSE Return(w, req[w], Json(200, D([response |-> S(req[w].ai_response)])))
    /\ UNCHANGED <<Static, conversation_histories, served, after_reset>>

\* Line 232, the read and the slice
ChatTruncate(w) ==
    /\ req[w].pc = "truncate"
    /\ req' = [req EXCEPT
                 ![w].tmp = Truncated(conversation_histories[req[w].session_id]),
                 ![w].pc = "store_truncated"]
    /\ UNCHANGED <<Static, conversation_histories, resp, served, after_reset>>

\* Lines 232 and 234: the write, then return the response
ChatStoreTruncated(w) ==
    /\ req[w].pc = "store_truncated"
    /\ conversation_histories' =
         [conversation_histories EXCEPT ![req[w].session_id] = req[w].tmp]
    /\ ReturnAfterWrite(w, req[w],
                        Json(200, D([response |-> S(req[w].ai_response)])),
                        req[w].session_id)
    /\ UNCHANGED <<Static, served, after_reset>>

\* Lines 239-247
ResetChat(w) ==
    /\ Accepting(w, "reset")
    /\ served' = Count("reset")
    /\ \E data \in ResetBodies :
         LET start == [Idle EXCEPT !.kind = "reset",
                                   !.before = conversation_histories] IN
         IF ~IsDict(data)
         THEN /\ Return(w, start, Unhandled("AttributeError", 500))
              /\ UNCHANGED <<conversation_histories, after_reset>>
         ELSE LET session_id == Get(data.v, "session_id", S("default")) IN
              /\ conversation_histories' =
                     AfterReset(conversation_histories, session_id.v)
              /\ after_reset' = Put(after_reset, session_id.v,
                                     Get(conversation_histories, session_id.v, ""))
              /\ LET locals == [start EXCEPT !.session_id = session_id.v]
                     response ==
                         Json(200, D([status |-> S("Conversation reset successfully")]))
                 IN IF session_id.v \in DOMAIN conversation_histories
                    THEN ReturnAfterWrite(w, locals, response, session_id.v)
                    ELSE Return(w, locals, response)
    /\ UNCHANGED Static

\* sum(len(course.get(key, [])) for course in courses)
RECURSIVE SumLen(_, _, _)
SumLen(courses, key, n) ==
    IF n > Len(courses) THEN 0
    ELSE PyLen(Get(courses[n], key, L(<<>>))) + SumLen(courses, key, n + 1)

\* Lines 253-271
Summary(original_data) ==
    LET courses == Get(original_data, "courses", <<>>)
        user == Get(original_data, "user", D(<<>>))
    IN D([user |-> D([name |-> Get(user.v, "name", S("Student")),
                      id |-> Get(user.v, "id", S("Unknown"))]),
          courses |-> L([n \in 1..Len(courses) |->
              D([name |-> Get(courses[n], "name", S("Unknown Course")),
                 assignments_count |->
                     I(PyLen(Get(courses[n], "assignments", L(<<>>)))),
                 quizzes_count |->
                     I(PyLen(Get(courses[n], "quizzes", L(<<>>))))])]),
          total_assignments |-> I(SumLen(courses, "assignments", 1)),
          total_quizzes |-> I(SumLen(courses, "quizzes", 1))])

\* Lines 250-275
GetDataSummary(w) ==
    /\ Accepting(w, "summary")
    /\ served' = Count("summary")
    /\ Return(w, [Idle EXCEPT !.kind = "summary",
                              !.before = conversation_histories],
              Json(200, Summary(canvas_data)))
    /\ UNCHANGED <<Static, conversation_histories, after_reset>>

\* Lines 278-288: no try block
HealthCheck(w) ==
    /\ Accepting(w, "health")
    /\ served' = Count("health")
    /\ \E now \in Clock :
         Return(w, [Idle EXCEPT !.kind = "health",
                                !.before = conversation_histories],
                Json(200, D([status |-> S("ok"),
                             documents_count |-> I(Len(documents)),
                             index_size |-> I(Len(index)),
                             current_datetime |-> S(now.short),
                             timezone |-> S("America/New_York")])))
    /\ UNCHANGED <<Static, conversation_histories, after_reset>>

Handle(w) ==
    \/ ChatReceive(w)
    \/ ChatInit(w)
    \/ ChatRetrieve(w)
    \/ ChatReadForPrompt(w)
    \/ ChatStorePrompt(w)
    \/ ChatGenerate(w)
    \/ ChatReadForResponse(w)
    \/ ChatStoreResponse(w)
    \/ ChatCheckLength(w)
    \/ ChatTruncate(w)
    \/ ChatStoreTruncated(w)
    \/ ResetChat(w)
    \/ GetDataSummary(w)
    \/ HealthCheck(w)

(***************************************************************************)
(* Specifications.                                                         *)
(***************************************************************************)
\* variables a specification does not use
NoFetch ==
    /\ api = <<>>
    /\ f_pc = "done"
    /\ f_i = 1
    /\ course_data = NoCourse
    /\ my_data = Dataset(<<>>)
    /\ out_file = NoFile
    /\ f_writes = 0

NoServing ==
    /\ conversation_histories = <<>>
    /\ req = [w \in Workers |-> Idle]
    /\ resp = [w \in Workers |-> NoResponse]
    /\ served = [chat |-> 0, other |-> 0]
    /\ after_reset = <<>>

\* the fetch run of Scraper.py
SpecFetchInit ==
    /\ FetchInit
    /\ phase = "offline"
    /\ canvas_data = Dataset(<<>>)
    /\ fl_i = 1
    /\ documents = <<>>
    /\ metadata = <<>>
    /\ index = <<>>
    /\ NoServing

SpecFetch == SpecFetchInit /\ [][FetchNext]_vars

\* load_and_process_data on the datasets a fetch run can write
SpecFlattenInit == NoFetch /\ FlattenInit /\ NoServing

SpecFlatten == SpecFlattenInit /\ [][FlattenNext]_vars

\* the serving process; one request is handled to completion at a time
Init == ServeInit

Next ==
    \/ Startup
    \/ Handle("w1")

Spec == Init /\ [][Next]_vars

\* the serving process with threaded request handling: each request runs in
\* a thread of its own, and the steps of the two handlers interleave
NewThread(w) == req[w].pc = "idle"

ThreadChat(w) == NewThread(w) /\ ChatReceive(w)

ThreadResetChat(w) == NewThread(w) /\ ResetChat(w)

ThreadGetDataSummary(w) == NewThread(w) /\ GetDataSummary(w)

ThreadHealthCheck(w) == NewThread(w) /\ HealthCheck(w)

ThreadStep(w) ==
    \/ ThreadChat(w)
    \/ ChatInit(w)
    \/ ChatRetrieve(w)
    \/ ChatReadForPrompt(w)
    \/ ChatStorePrompt(w)
    \/ ChatGenerate(w)
    \/ ChatReadForResponse(w)
    \/ ChatStoreResponse(w)
    \/ ChatCheckLength(w)
    \/ ChatTruncate(w)
    \/ ChatStoreTruncated(w)
    \/ ThreadResetChat(w)
    \/ ThreadGetDataSummary(w)
    \/ ThreadHealthCheck(w)

ConcNext ==
    \/ Startup
    \/ \E w \in Workers : ThreadStep(w)

SpecConc == Init /\ [][ConcNext]_vars

(***************************************************************************)
(* Properties.                                                             *)
(***************************************************************************)
Finished(w, kind) == req[w].pc = "done" /\ req[w].kind = kind

\* the session's stored history when worker w's request arrived
HistoryBefore(w) == Get(req[w].before, req[w].session_id, "")

HistoryNow(w) == conversation_histories[req[w].session_id]

\* the except block of chat answered: encode, search or the model raised
FailedTurn(w) ==
    /\ Finished(w, "chat")
    /\ resp[w].by = "handler"
    /\ resp[w].status = 500

SuccessfulTurn(w) ==
    /\ Finished(w, "chat")
    /\ resp[w].by = "handler"
    /\ resp[w].status = 200

\* C1: a chat request in which encoding, search or the model call raises
\* leaves the session's stored history as it was when the request started.
C1_FailedTurnKeepsHistory ==
    \A w \in Workers : FailedTurn(w) => HistoryNow(w) = HistoryBefore(w)

\* C2: whenever no chat request is in progress, every session's stored
\* history is at most 10,000 characters long.
C2_HistoryBounded ==
    (\A w \in Workers : Free(w)) =>
        \A s \in DOMAIN conversation_histories :
            Len(conversation_histories[s]) <= 10000

\* the transcript of a successful turn before truncation: H + "\n" + P + " " + R
TurnText(w) ==
    HistoryBefore(w) \o "\n" \o req[w].full_prompt \o " " \o req[w].ai_response

\* C3: after a successful chat turn the stored history is T = H + "\n" + P +
\* " " + R when T has at most 10,000 characters, and otherwise its last
\* 10,000 characters: 10,000 characters long, and T is some prefix followed
\* by it.
C3_SuccessfulTurnHistory ==
    \A w \in Workers :
        SuccessfulTurn(w) =>
            LET T == TurnText(w) IN
            IF Len(T) <= 10000
            THEN HistoryNow(w) = T
            ELSE /\ Len(HistoryNow(w)) = 10000
                 /\ SubSeq(T, 1, Len(T) - 10000) \o HistoryNow(w) = T

\* a successful turn on a session with earlier text, truncated
C3_Witness ==
    \E w \in Workers :
        /\ SuccessfulTurn(w)
        /\ HistoryBefore(w) # ""
        /\ Len(TurnText(w)) > 10000

\* C4: a reset-chat with a session id answers success whether or not the
\* session has stored history, and the session's next chat request sends the
\* model only its own prompt (after the separating newline), nothing of an
\* earlier turn.
C4_ResetThenFreshTranscript ==
    \A w \in Workers :
        /\ (Finished(w, "reset") /\ req[w].session_id # "") =>
               /\ resp[w].by = "handler"
               /\ resp[w].status = 200
               /\ resp[w].body = D([status |-> S("Conversation reset successfully")])
               /\ req[w].session_id \in DOMAIN conversation_histories =>
                      HistoryNow(w) = ""
        /\ (req[w].kind = "chat" /\ req[w].fresh /\ req[w].sent) =>
               req[w].transcript = "\n" \o req[w].full_prompt

\* the first chat after a reset that cleared earlier text reached the model
C4_Witness ==
    \E w \in Workers :
        /\ req[w].kind = "chat"
        /\ req[w].fresh
        /\ req[w].sent
        /\ req[w].cleared # ""

\* C5: a chat request that reaches retrieval asks for k = min(10, N)
\* neighbours, every index the search returns is in 0..N-1, and looking the
\* documents up does not raise.
C5_NeighboursWithinCorpus ==
    \A w \in Workers :
        (req[w].kind = "chat" /\ req[w].k # 0) =>
            LET N == Len(documents) IN
            /\ req[w].k = (IF N < 10 THEN N ELSE 10)
            /\ Len(req[w].indices) \in {0, req[w].k}
            /\ \A j \in 1..Len(req[w].indices) :
                   0 <= req[w].indices[j] /\ req[w].indices[j] < N
            /\ resp[w] # Caught("list index out of range")

\* a search on a corpus smaller than ten documents returned the whole corpus
C5_Witness ==
    \E w \in Workers :
        /\ req[w].kind = "chat"
        /\ Len(documents) < 10
        /\ Len(req[w].indices) = Len(documents)
        /\ req[w].full_prompt # ""

\* C6: once the process serves, documents, metadata and the index have the
\* same length, the index holds at position i the vector of document i, and
\* no step of any handler changes any of the three.
C6_IndexAlignedAndReadOnly ==
    [][phase = "serving" =>
          /\ Len(metadata) = Len(documents)
          /\ Len(index) = Len(documents)
          /\ \A n \in 1..Len(documents) : index[n].embedding_of = documents[n]
          /\ documents' = documents
          /\ metadata' = metadata
          /\ index' = index]_vars

\* chat requests and another request have been handled against the corpus
C6_Witness ==
    /\ phase = "serving"
    /\ Len(documents) > 10
    /\ served.chat = MaxChats
    /\ served.other = MaxOthers
    /\ \E w \in Workers : SuccessfulTurn(w)

\* the records of a section: the items of a list; an error string has none
Records(section) == IF section.t = "list" THEN Len(section.v) ELSE 0

RECURSIVE RecordCount(_, _)
RecordCount(courses, n) ==
    IF n > Len(courses) THEN 0
    ELSE 1 + Records(courses[n]["assignments"]) + Records(courses[n]["quizzes"])
         + RecordCount(courses, n + 1)

\* C7: the flattener emits one document per course, per assignment record
\* and per quiz record; a section holding an error string has no records.
C7_OneDocumentPerRecord ==
    phase = "flattened" =>
        Len(documents) = RecordCount(canvas_data.courses, 1)

\* the start timestamp parses and is strictly earlier than the cutoff
StartsBeforeCutoff(start_at) ==
    /\ start_at.t = "str"
    /\ FromIsoFormat(start_at.v).kind # "error"
    /\ TupleLess(FromIsoFormat(start_at.v).utc, cutoff_date)

\* the number of records of the written dataset for the course with this id
Written(id) ==
    IF out_file.t = "file"
    THEN Cardinality({n \in 1..Len(out_file.v.courses) :
                         out_file.v.courses[n]["id"] = I(id)})
    ELSE 0

FetchEnded == f_pc \in {"done", "crashed"}

\* C8: the fetch run completes, and a course is absent from the written
\* dataset exactly when its start timestamp parses and is strictly earlier
\* than the cutoff; every other course appears exactly once.
C8_CutoffFilter ==
    FetchEnded =>
        /\ f_pc = "done"
        /\ \A n \in 1..Len(api) :
               Written(api[n].id) =
                   (IF StartsBeforeCutoff(api[n].start_at) THEN 0 ELSE 1)

\* C9: whatever sections of a kept course fail, its record holds all seven
\* section keys, the later courses are still processed and the file is
\* written exactly once, after the last course.
C9_SectionFailuresContained ==
    /\ \A n \in 1..Len(my_data.courses) :
           \A m \in 1..Len(Sections) : Sections[m] \in DOMAIN my_data.courses[n]
    /\ f_writes <= 1
    /\ (FetchEnded /\ my_data.courses # <<>>) =>
           /\ f_i > Len(api)
           /\ f_writes = 1
           /\ out_file = [t |-> "file", v |-> my_data]

\* C10: whatever fails while a chat, summary or health request is handled,
\* the handler itself answers, with a JSON body, and with {error: ...} and a
\* non-2xx status when it failed.
C10_FailuresAnsweredByHandler ==
    \A w \in Workers :
        (req[w].pc = "done" /\ req[w].kind \in {"chat", "summary", "health"}) =>
            /\ resp[w].by = "handler"
            /\ resp[w].json
            /\ resp[w].status # 200 => "error" \in DOMAIN resp[w].body.v

\* a chat request on whose session no other request has written since it
\* arrived
Unraced(w) == req[w].kind = "chat" /\ ~req[w].raced

\* C11: requests on the same session id race. A state is reachable in which
\* an appended prompt or response is lost, a response is stored not directly
\* after its own prompt, and the model was called with a transcript holding
\* the other request's unanswered prompt (C11_Witness); and these come from
\* the race alone: a chat request on whose session no other request wrote
\* sends the model the earlier history followed by its own prompt, finds its
\* prompt stored after that history, and stores its response directly after
\* its own prompt, nothing lost.
C11_AnomaliesOnlyFromRaces ==
    \A w \in Workers :
        Unraced(w) =>
            /\ req[w].pc = "generate" =>
                   HistoryNow(w) = HistoryBefore(w) \o "\n" \o req[w].full_prompt
            /\ req[w].sent =>
                   req[w].transcript =
                       HistoryBefore(w) \o "\n" \o req[w].full_prompt
            /\ req[w].pc \in {"check_length", "truncate", "store_truncated"} =>
                   HistoryNow(w) = TurnText(w)
            /\ SuccessfulTurn(w) =>
                   LET T == TurnText(w) IN
                   IF Len(T) <= 10000
                   THEN HistoryNow(w) = T
                   ELSE HistoryNow(w) = SubSeq(T, Len(T) - 9999, Len(T))

\* two interleaved chat turns on one session, both answered 200: the model
\* was called for w with v's unanswered prompt and without w's own; the
\* stored history is v's prompt followed by w's response, so w's prompt and
\* v's response are lost and w's response does not follow its own prompt
C11_Witness ==
    \E w \in Workers, v \in Workers :
        /\ w # v
        /\ SuccessfulTurn(w)
        /\ SuccessfulTurn(v)
        /\ req[w].session_id = req[v].session_id
        /\ req[w].full_prompt # req[v].full_prompt
        /\ req[w].transcript = "\n" \o req[v].full_prompt
        /\ HistoryNow(w) =
               "\n" \o req[v].full_prompt \o " " \o req[w].ai_response

\* the step leaves the entry of session t as it is: not added, not removed,
\* its history unchanged
EntryKept(t) ==
    /\ (t \in DOMAIN conversation_histories) =
           (t \in DOMAIN conversation_histories')
    /\ t \in DOMAIN conversation_histories =>
           conversation_histories'[t] = conversation_histories[t]

\* C12: no step of a request for session s, whichever way the request ends
\* and however it interleaves with another request, changes, adds or removes
\* the entry of a session t # s; and a chat request with an empty message is
\* answered 400 in the step that reads it, with no session entry created or
\* changed and the model not called.
C12_SessionsIndependent ==
    [][\A w \in Workers :
          Handle(w) =>
              /\ \A t \in DOMAIN conversation_histories
                            \cup DOMAIN conversation_histories' :
                     t # req'[w].session_id => EntryKept(t)
              /\ (served' # served /\ req'[w].kind = "chat"
                     /\ req'[w].session_id # "" /\ req'[w].message = "") =>
                     /\ resp'[w] = Json(400, D([error |-> S("No message provided")]))
                     /\ conversation_histories' = conversation_histories
                     /\ req'[w].pc = "done"
                     /\ ~req'[w].sent]_vars

\* two chat turns on different sessions, interleaved (w arrived after v had
\* stored its prompt and before v stored its response), both answered 200
\* and each session holding its own turn
C12_Witness ==
    \E w \in Workers, v \in Workers :
        /\ SuccessfulTurn(w)
        /\ SuccessfulTurn(v)
        /\ req[w].session_id # req[v].session_id
        /\ Get(req[w].before, req[v].session_id, "") = "\n" \o req[v].full_prompt
        /\ HistoryNow(v) = TurnText(v)
        /\ HistoryNow(w) = TurnText(w)

====
